---- MODULE Spec2Model ----
(***************************************************************************)
(* Model of OllamaContentGenerator                                         *)
(* (packages/core/src/core/ollamaContentGenerator.ts): the adapter that    *)
(* translates a generic "generate content" request into the chat           *)
(* completion payload of an Ollama backend and translates the reply back.  *)
(*                                                                         *)
(* JavaScript values are represented as follows.                           *)
(*   string            a sequence of one-character strings                 *)
(*   optional field    a set: {} when the field is undefined, {v} when it  *)
(*                     holds v                                             *)
(*   object (mapping)  a sequence of [key, value] records in insertion     *)
(*                     order, the order JSON.stringify writes them in      *)
(*   role / finish_reason / model names, which the code only compares or   *)
(*                     copies, are TLA+ strings                            *)
(***************************************************************************)
EXTENDS Integers, Sequences, FiniteSets, TLC

VARIABLES
  pc,              \* position of the current invocation: "idle", "fetching", "done"
  op,              \* the entry point invoked: generateContent, generateContentStream, ...
  request,         \* the parameters the entry point was invoked with
  contents,        \* generateContent's local `contents` (toContents' result)
  body,            \* the payload posted to {baseUrl}/chat/completions, {} before it is built
  httpResponse,    \* the backend's reply to fetch, {} before it arrives
  outcome,         \* what the invocation's promise settled to
  fetchCalls,      \* fetch() calls made by the current invocation
  generateCalls,   \* generateContent calls made by the current invocation
  translateCalls,  \* fromOpenAiResponse calls made by the current invocation
  stream,          \* the async generator generateContentStream returned
  consumed,        \* the iterator results the caller got from the generator's next()
  invocations      \* invocations of this generator object that have returned

vars == <<pc, op, request, contents, body, httpResponse, outcome, fetchCalls,
          generateCalls, translateCalls, stream, consumed, invocations>>

----------------------------------------------------------------------------
(* Bounds of the model. *)

\* longest parts list of a Content in the part renderer's specification
MaxParts == 3
\* longest contents list of a request in the message translator's specification
MaxContents == 2
\* longest text part given to countTokens
MaxTextLen == 41
\* next() calls a caller makes on one generator
MaxNext == 3
\* invocations of one generator object that are followed by another
MaxInvocations == 1

----------------------------------------------------------------------------
(* JavaScript helpers. *)

None == {}

Some(v) == {v}

Get(o) == CHOOSE v \in o : TRUE

\* JavaScript truthiness of an optional string: undefined and "" are falsy
TruthyString(o) == o # None /\ Get(o) # <<>>

\* Array.prototype.join
RECURSIVE Join(_, _)
Join(strs, sep) ==
  IF strs = <<>> THEN <<>>
  ELSE IF Len(strs) = 1 THEN strs[1]
  ELSE strs[1] \o sep \o Join(Tail(strs), sep)

\* Array.prototype.filter(Boolean) on an array of strings: drops the empty ones
FilterBoolean(strs) == SelectSeq(strs, LAMBDA s : s # <<>>)

\* JSON.stringify of a string value (the modelled strings hold no character
\* that JSON escapes)
JSONString(s) == <<"\"">> \o s \o <<"\"">>

\* JSON.stringify of an object whose values are strings
JSONStringify(obj) ==
  <<"{">>
    \o Join([i \in 1..Len(obj) |->
               JSONString(obj[i].key) \o <<":">> \o JSONString(obj[i].value)],
            <<",">>)
    \o <<"}">>

\* a ?? b on an optional object
Coalesce(o, default) == IF o # None THEN Get(o) ELSE default

\* String(n) of a non-negative integer
RECURSIVE NumberToString(_)
NumberToString(n) ==
  LET digit == <<"0", "1", "2", "3", "4", "5", "6", "7", "8", "9">>[(n % 10) + 1]
  IN IF n < 10 THEN <<digit>> ELSE NumberToString(n \div 10) \o <<digit>>

----------------------------------------------------------------------------
(* The Part Renderer. *)

PartsToContent_FunctionCallPrefix ==
  <<"F", "u", "n", "c", "t", "i", "o", "n", " ", "c", "a", "l", "l", " ">>

PartsToContent_FunctionResponsePrefix ==
  <<"F", "u", "n", "c", "t", "i", "o", "n", " ", "r", "e", "s", "p", "o", "n", "s", "e", " ">>

\* the callback of parts.map in partsToContent
RenderPart(part) ==
  IF TruthyString(part.text) THEN Get(part.text)
  ELSE IF part.functionCall # None
    THEN PartsToContent_FunctionCallPrefix \o Get(part.functionCall).name \o <<":", " ">>
           \o JSONStringify(Coalesce(Get(part.functionCall).args, <<>>))
  ELSE IF part.functionResponse # None
    THEN PartsToContent_FunctionResponsePrefix \o Get(part.functionResponse).name
           \o <<":", " ">>
           \o JSONStringify(Coalesce(Get(part.functionResponse).response, <<>>))
  ELSE <<>>

\* mutant: the empty renderings are kept
partsToContent_NoFilter(parts) ==
  Join([i \in 1..Len(parts) |-> RenderPart(parts[i])], <<"\n">>)

partsToContent(parts) ==
  Join(FilterBoolean([i \in 1..Len(parts) |-> RenderPart(parts[i])]), <<"\n">>)

----------------------------------------------------------------------------
(* The Message Translator. *)

\* toContent of code_assist/converter on a Content-shaped value
toContent(content) == content

\* toContents of code_assist/converter on a list of Content
toContents(list) == [i \in 1..Len(list) |-> toContent(list[i])]

\* mutant: turns that render to nothing are filtered out
toOpenAiMessages_DropEmpty(cs) ==
  SelectSeq([i \in 1..Len(cs) |->
               [role |-> IF cs[i].role = Some("user") THEN "user" ELSE "assistant",
                content |-> partsToContent(Coalesce(cs[i].parts, <<>>))]],
            LAMBDA m : m.content # <<>>)

toOpenAiMessages(cs) ==
  [i \in 1..Len(cs) |->
     [role |-> IF cs[i].role = Some("user") THEN "user" ELSE "assistant",
      content |-> partsToContent(Coalesce(cs[i].parts, <<>>))]]

\* truthiness of requestConfig?.systemInstruction: undefined and "" are falsy,
\* a non-empty string and any object are truthy
TruthySystemInstruction(si) ==
  si # None /\ (Get(si).type = "string" => Get(Get(si).string) # <<>>)

\* requestConfig?.systemInstruction
SystemInstructionOf(req) ==
  IF req.config = None THEN None ELSE Get(req.config).systemInstruction

\* requestConfig?.generationConfig
GenConfigOf(req) ==
  IF req.config = None THEN None ELSE Get(req.config).generationConfig

\* mutant: the system message is appended after the turn messages
BuildMessages_SystemLast(si, cs) ==
  toOpenAiMessages(cs)
    \o (IF TruthySystemInstruction(si)
          THEN <<[role |-> "system",
                  content |-> IF Get(si).type = "string" THEN Get(Get(si).string)
                              ELSE partsToContent(
                                     Coalesce(Get(Get(si).content).parts, <<>>))]>>
          ELSE <<>>)

\* mutant: a system message is always sent, with empty content when there is
\* no instruction
BuildMessages_AlwaysSystem(si, cs) ==
  <<[role |-> "system",
     content |-> IF si = None THEN <<>>
                 ELSE IF Get(si).type = "string" THEN Get(Get(si).string)
                 ELSE partsToContent(Coalesce(Get(Get(si).content).parts, <<>>))]>>
    \o toOpenAiMessages(cs)

\* the `messages` array literal of generateContent
BuildMessages(si, cs) ==
  (IF TruthySystemInstruction(si)
     THEN <<[role |-> "system",
             content |-> IF Get(si).type = "string" THEN Get(Get(si).string)
                         ELSE partsToContent(Coalesce(Get(Get(si).content).parts, <<>>))]>>
     ELSE <<>>)
    \o toOpenAiMessages(cs)

\* this.model, set by the constructor
ThisModel == "llama3"

\* one optional field of genConfig: genConfig?.field
GenConfigField(gc, field) == IF gc = None THEN None ELSE Get(gc)[field]

\* the `body` object literal of generateContent
BuildBody(req, cs) ==
  [model |-> IF req.model # None /\ Get(req.model) # "" THEN Get(req.model) ELSE ThisModel,
   messages |-> BuildMessages(SystemInstructionOf(req), cs),
   stream |-> FALSE,
   temperature |-> GenConfigField(GenConfigOf(req), "temperature"),
   top_p |-> GenConfigField(GenConfigOf(req), "topP"),
   max_tokens |-> GenConfigField(GenConfigOf(req), "maxOutputTokens")]

----------------------------------------------------------------------------
(* The Response Translator. *)

\* getErrorMessage of utils/errors on a value that is no Error: String(value)
getErrorMessage(choice) ==
  IF choice = None THEN <<"u", "n", "d", "e", "f", "i", "n", "e", "d">>
  ELSE <<"[", "o", "b", "j", "e", "c", "t", " ", "O", "b", "j", "e", "c", "t", "]">>

\* data?.choices?.[0]
FirstChoice(data) ==
  IF data = None THEN None
  ELSE IF Get(data).choices = None THEN None
  ELSE IF Get(Get(data).choices) = <<>> THEN None
  ELSE Some(Get(Get(data).choices)[1])

\* choice?.message?.content and choice?.delta?.content
ChoiceContent(choice, field) ==
  IF choice = None THEN None
  ELSE IF Get(choice)[field] = None THEN None
  ELSE Get(Get(choice)[field]).content

\* choice?.finish_reason
ChoiceFinishReason(choice) ==
  IF choice = None THEN None ELSE Get(choice).finish_reason

\* mutant: the delta is preferred to the completed message
ResponseText_DeltaFirst(choice) ==
  IF ChoiceContent(choice, "delta") # None THEN Get(ChoiceContent(choice, "delta"))
  ELSE IF ChoiceContent(choice, "message") # None THEN Get(ChoiceContent(choice, "message"))
  ELSE getErrorMessage(choice)

\* the `text` of fromOpenAiResponse
ResponseText(choice) ==
  IF ChoiceContent(choice, "message") # None THEN Get(ChoiceContent(choice, "message"))
  ELSE IF ChoiceContent(choice, "delta") # None THEN Get(ChoiceContent(choice, "delta"))
  ELSE getErrorMessage(choice)

\* mutant: "stop" maps to STOP and every other value to MAX_TOKENS
ResponseFinishReason_StopOnly(choice) ==
  IF ChoiceFinishReason(choice) = Some("stop") THEN "STOP" ELSE "MAX_TOKENS"

\* the `finishReason` of fromOpenAiResponse
ResponseFinishReason(choice) ==
  IF ChoiceFinishReason(choice) = Some("length") THEN "MAX_TOKENS" ELSE "STOP"

fromOpenAiResponse(data) ==
  LET choice == FirstChoice(data)
  IN [candidates |->
        <<[content |-> [role |-> "model", parts |-> <<[text |-> ResponseText(choice)]>>],
           finishReason |-> ResponseFinishReason(choice)]>>,
      usageMetadata |->
        IF data # None /\ Get(data).usage # None
          THEN Some([promptTokenCount |-> Get(Get(data).usage).prompt_tokens,
                     candidatesTokenCount |-> Get(Get(data).usage).completion_tokens,
                     totalTokenCount |-> Get(Get(data).usage).total_tokens])
          ELSE None]

\* response.ok: the status is in the range 200-299
ok(r) == r.status >= 200 /\ r.status <= 299

\* mutant: the error carries the status alone
RequestFailedMessage_NoBody(r) ==
  <<"O", "l", "l", "a", "m", "a", " ", "r", "e", "q", "u", "e", "s", "t", " ",
    "f", "a", "i", "l", "e", "d", " ", "(">>
    \o NumberToString(r.status) \o <<")">>

\* the message of the Error thrown when !response.ok
RequestFailedMessage(r) ==
  <<"O", "l", "l", "a", "m", "a", " ", "r", "e", "q", "u", "e", "s", "t", " ",
    "f", "a", "i", "l", "e", "d", " ", "(">>
    \o NumberToString(r.status) \o <<")", ":", " ">> \o r.text

----------------------------------------------------------------------------
(* The Token Estimator and the embedding entry point. *)

\* partListUnionToString of core/geminiRequest: the flattening of the parts
partListUnionToString(parts) == partsToContent(parts)

\* contents.flatMap((c) => c.parts || [])
RECURSIVE FlatMapParts(_)
FlatMapParts(cs) ==
  IF cs = <<>> THEN <<>>
  ELSE Coalesce(Head(cs).parts, <<>>) \o FlatMapParts(Tail(cs))

\* Math.ceil(n / d) for n >= 0, d > 0
MathCeilDiv(n, d) == IF n % d = 0 THEN n \div d ELSE (n \div d) + 1

\* Math.max
MathMax(a, b) == IF a >= b THEN a ELSE b

\* mutant: the quotient is rounded down
countTokens_Floor(req) ==
  LET text == partListUnionToString(FlatMapParts(toContents(Coalesce(req.contents, <<>>))))
  IN [totalTokens |-> MathMax(1, Len(text) \div 4)]

countTokens(req) ==
  LET cs == toContents(Coalesce(req.contents, <<>>))
      allParts == FlatMapParts(cs)
      text == partListUnionToString(allParts)
      estimatedTokens == MathMax(1, MathCeilDiv(Len(text), 4))
  IN [totalTokens |-> estimatedTokens]

\* mutant: the message names no backend
EmbedContentMessage_Generic ==
  <<"E", "m", "b", "e", "d", "d", "i", "n", "g", " ", "i", "s", " ", "n", "o", "t", " ",
    "s", "u", "p", "p", "o", "r", "t", "e", "d", ".">>

\* the message of the Error embedContent throws
EmbedContentMessage ==
  <<"E", "m", "b", "e", "d", "d", "i", "n", "g", " ", "i", "s", " ", "n", "o", "t", " ",
    "s", "u", "p", "p", "o", "r", "t", "e", "d", " ", "f", "o", "r", " ",
    "O", "l", "l", "a", "m", "a", " ", "b", "a", "c", "k", "e", "n", "d", "s", " ",
    "y", "e", "t", ".">>

----------------------------------------------------------------------------
(* The values the entry points are invoked with and the backend answers with. *)

SeqsUpTo(S, n) == UNION {[1..k -> S] : k \in 0..n}

Rep(c, n) == [i \in 1..n |-> c]

TextPart(s) == [text |-> Some(s), functionCall |-> None, functionResponse |-> None]

FunctionCallPart(name, args) ==
  [text |-> None, functionCall |-> Some([name |-> name, args |-> args]),
   functionResponse |-> None]

FunctionResponsePart(name, response) ==
  [text |-> None, functionCall |-> None,
   functionResponse |-> Some([name |-> name, response |-> response])]

EmptyPart == [text |-> None, functionCall |-> None, functionResponse |-> None]

Lookup == <<"l", "o", "o", "k", "u", "p">>

\* the function call `lookup` with arguments {"q":"x"}
LookupCall == FunctionCallPart(Lookup, Some(<<[key |-> <<"q">>, value |-> <<"x">>]>>))

PartPool ==
  { TextPart(<<"h", "i">>), TextPart(<<>>), TextPart(<<"a", "\n", "b">>),
    LookupCall, FunctionCallPart(Lookup, None),
    FunctionResponsePart(Lookup, Some(<<[key |-> <<"r">>, value |-> <<"y">>],
                                        [key |-> <<"n">>, value |-> <<>>]>>)),
    FunctionResponsePart(Lookup, None),
    EmptyPart }

Request(model, cs, config) == [model |-> model, contents |-> cs, config |-> config]

Config(gc, si) == Some([generationConfig |-> gc, systemInstruction |-> si])

\* a systemInstruction that is a string: typeof gives "string"
StringInstruction(s) == Some([type |-> "string", string |-> Some(s), content |-> None])

\* a systemInstruction that is Content-shaped: typeof gives "object"
ContentInstruction(c) == Some([type |-> "object", string |-> None, content |-> Some(c)])

BeConcise == <<"B", "e", " ", "c", "o", "n", "c", "i", "s", "e">>

\* requests of one user turn whose parts range over every list of the pool
PartsRequests ==
  { Request(None, Some(<<[role |-> Some("user"), parts |-> Some(ps)]>>), None) :
      ps \in SeqsUpTo(PartPool, MaxParts) }

RolePool == {None, Some("user"), Some("model"), Some("system"), Some("User")}

PartsPool ==
  {None, Some(<<>>), Some(<<EmptyPart>>), Some(<<TextPart(<<"h", "i">>), LookupCall>>)}

ContentPool == [role : RolePool, parts : PartsPool]

SystemInstructionPool ==
  {None, StringInstruction(<<>>), StringInstruction(BeConcise),
   ContentInstruction([role |-> None, parts |-> None]),
   ContentInstruction([role |-> Some("system"), parts |-> Some(<<TextPart(<<"h", "i">>)>>)]),
   ContentInstruction([role |-> Some("user"),
                       parts |-> Some(<<TextPart(BeConcise), EmptyPart, LookupCall>>)])}

\* requests whose contents range over every list of the pool, with every
\* system instruction of the pool
MessageRequests ==
  { Request(None, cs, config) :
      cs \in {None} \cup {Some(l) : l \in SeqsUpTo(ContentPool, MaxContents)},
      config \in {None} \cup {Config(None, si) : si \in SystemInstructionPool} }

GenConfigPool ==
  {None,
   Some([temperature |-> Some(0), topP |-> None, maxOutputTokens |-> Some(16)])}

\* a few requests for the specification of the invocations' control flow
FlowRequests ==
  { Request(model, cs, Config(gc, si)) :
      model \in {Some(""), Some("qwen")},
      cs \in {None, Some(<<[role |-> Some("user"), parts |-> Some(<<TextPart(<<"h", "i">>)>>)]>>)},
      gc \in GenConfigPool,
      si \in {None, StringInstruction(BeConcise)} }

\* countTokens requests: text parts of every length up to MaxTextLen
TokenContentPool ==
  { [role |-> Some("user"), parts |-> ps] :
      ps \in {None, Some(<<TextPart(<<"a", "b", "c", "d">>), LookupCall>>)}
               \cup {Some(<<TextPart(Rep("a", n))>>) : n \in 0..MaxTextLen} }

TokenRequests ==
  { Request(None, cs, None) :
      cs \in {None} \cup {Some(l) : l \in SeqsUpTo(TokenContentPool, 2)} }

Choice(message, delta, finish) ==
  [message |-> message, delta |-> delta, finish_reason |-> finish]

ChoicePool ==
  { Choice(m, d, f) :
      m \in {None, Some([content |-> None]), Some([content |-> Some(<<>>)]),
             Some([content |-> Some(<<"o", "k">>)])},
      d \in {None, Some([content |-> None]), Some([content |-> Some(<<"d">>)])},
      f \in {None, Some("length"), Some("stop"), Some("Length"), Some("tool_calls")} }

UsagePool ==
  {None,
   Some([prompt_tokens |-> None, completion_tokens |-> None, total_tokens |-> None]),
   Some([prompt_tokens |-> Some(3), completion_tokens |-> Some(5),
         total_tokens |-> Some(8)])}

\* a second choice, which the translator never reads
OtherChoice == Choice(Some([content |-> Some(<<"z">>)]), None, Some("length"))

\* the values response.json() yields
DataPool ==
  {None}
    \cup { Some([choices |-> cs, usage |-> u]) :
             cs \in {None, Some(<<>>)}
                      \cup {Some(<<c>>) : c \in ChoicePool}
                      \cup {Some(<<c, OtherChoice>>) : c \in ChoicePool},
             u \in UsagePool }

HttpResponse(status, text, json) == [status |-> status, text |-> text, json |-> json]

\* every 2xx reply of the pool
OkResponses == { HttpResponse(200, <<>>, data) : data \in DataPool }

\* a few 2xx replies
FlowOkResponses ==
  { HttpResponse(status, <<>>, data) :
      status \in {200, 299},
      data \in {None,
                Some([choices |-> Some(<<Choice(Some([content |-> Some(<<"o", "k">>)]),
                                                 None, Some("stop"))>>),
                      usage |-> None])} }

\* one 2xx reply and one reply that is not, for the specifications that
\* range over the requests
OneOkResponse ==
  { HttpResponse(200, <<>>,
                 Some([choices |-> Some(<<Choice(Some([content |-> Some(<<"o", "k">>)]),
                                                  None, Some("stop"))>>),
                       usage |-> None])) }

OneFailResponse == { HttpResponse(500, <<"o", "o", "p", "s">>, None) }

\* replies whose status is not 2xx
FailResponses ==
  { HttpResponse(status, text, None) :
      status \in {199, 300, 404, 500},
      text \in {<<>>, <<"o", "o", "p", "s">>} }

----------------------------------------------------------------------------
(* The invocations. *)

NoOutcome == [kind |-> "pending", value |-> None, message |-> <<>>]

Resolved(v) == [kind |-> "resolved", value |-> Some(v), message |-> <<>>]

Rejected(m) == [kind |-> "rejected", value |-> None, message |-> m]

NoStream == [state |-> "none", resp |-> None]

Init ==
  /\ pc = "idle"
  /\ op = "none"
  /\ request = None
  /\ contents = <<>>
  /\ body = None
  /\ httpResponse = None
  /\ outcome = NoOutcome
  /\ fetchCalls = 0
  /\ generateCalls = 0
  /\ translateCalls = 0
  /\ stream = NoStream
  /\ consumed = <<>>
  /\ invocations = 0

\* generateContent up to its await of fetch
generateContent_Call(name, req) ==
  /\ pc' = "fetching"
  /\ op' = name
  /\ request' = Some(req)
  /\ contents' = toContents(Coalesce(req.contents, <<>>))
  /\ body' = Some(BuildBody(req, contents'))
  /\ fetchCalls' = fetchCalls + 1
  /\ generateCalls' = generateCalls + 1
  /\ UNCHANGED <<httpResponse, outcome, translateCalls, stream, consumed, invocations>>

GenerateContent(requests) ==
  /\ pc = "idle"
  /\ \E req \in requests : generateContent_Call("generateContent", req)

\* generateContentStream up to its await of this.generateContent
GenerateContentStream(requests) ==
  /\ pc = "idle"
  /\ \E req \in requests : generateContent_Call("generateContentStream", req)

\* fetch resolves with a 2xx reply: generateContent returns
\* fromOpenAiResponse(data), and generateContentStream, resumed with it,
\* returns the generator stream()
ResponseOk(responses) ==
  /\ pc = "fetching"
  /\ \E r \in responses :
       /\ ok(r)
       /\ httpResponse' = Some(r)
       /\ LET resp == fromOpenAiResponse(r.json)
          IN IF op = "generateContent"
               THEN outcome' = Resolved(resp) /\ stream' = stream
               ELSE /\ outcome' = Resolved("AsyncGenerator")
                    /\ stream' = [state |-> "suspendedStart", resp |-> Some(resp)]
  /\ translateCalls' = translateCalls + 1
  /\ pc' = "done"
  /\ UNCHANGED <<op, request, contents, body, fetchCalls, generateCalls, consumed,
                 invocations>>

\* fetch resolves with a reply that is not ok: generateContent throws, and
\* so does generateContentStream awaiting it
ResponseNotOk(responses) ==
  /\ pc = "fetching"
  /\ \E r \in responses :
       /\ ~ok(r)
       /\ httpResponse' = Some(r)
       /\ outcome' = Rejected(RequestFailedMessage(r))
  /\ pc' = "done"
  /\ UNCHANGED <<op, request, contents, body, fetchCalls, generateCalls,
                 translateCalls, stream, consumed, invocations>>

FetchFailedMessage == <<"f", "e", "t", "c", "h", " ", "f", "a", "i", "l", "e", "d">>

\* fetch rejects (the backend cannot be reached): the rejection propagates
FetchRejects ==
  /\ pc = "fetching"
  /\ outcome' = Rejected(FetchFailedMessage)
  /\ pc' = "done"
  /\ UNCHANGED <<op, request, contents, body, httpResponse, fetchCalls, generateCalls,
                 translateCalls, stream, consumed, invocations>>

\* mutant: the generator yields the response each time it is resumed
StreamNext_YieldAgain ==
  /\ pc = "done"
  /\ stream.state # "none"
  /\ Len(consumed) < MaxNext
  /\ consumed' = Append(consumed, [done |-> FALSE, value |-> stream.resp])
  /\ stream' = [stream EXCEPT !.state = "suspendedYield"]
  /\ UNCHANGED <<pc, op, request, contents, body, httpResponse, outcome, fetchCalls,
                 generateCalls, translateCalls, invocations>>

\* the caller calls next() on the generator that generateContentStream returned
StreamNext ==
  /\ pc = "done"
  /\ stream.state # "none"
  /\ Len(consumed) < MaxNext
  /\ IF stream.state = "suspendedStart"
       THEN /\ consumed' = Append(consumed, [done |-> FALSE, value |-> stream.resp])
            /\ stream' = [stream EXCEPT !.state = "suspendedYield"]
       ELSE /\ consumed' = Append(consumed, [done |-> TRUE, value |-> None])
            /\ stream' = [stream EXCEPT !.state = "completed"]
  /\ UNCHANGED <<pc, op, request, contents, body, httpResponse, outcome, fetchCalls,
                 generateCalls, translateCalls, invocations>>

CountTokens(requests) ==
  /\ pc = "idle"
  /\ \E req \in requests :
       /\ request' = Some(req)
       /\ contents' = toContents(Coalesce(req.contents, <<>>))
       /\ outcome' = Resolved(countTokens(req))
  /\ op' = "countTokens"
  /\ pc' = "done"
  /\ UNCHANGED <<body, httpResponse, fetchCalls, generateCalls, translateCalls,
                 stream, consumed, invocations>>

EmbedContent(requests) ==
  /\ pc = "idle"
  /\ \E req \in requests : request' = Some(req)
  /\ outcome' = Rejected(EmbedContentMessage)
  /\ op' = "embedContent"
  /\ pc' = "done"
  /\ UNCHANGED <<contents, body, httpResponse, fetchCalls, generateCalls,
                 translateCalls, stream, consumed, invocations>>

\* the invocation is over and the generator is dropped: the object, which
\* holds no mutable field, is ready for the next invocation
Return ==
  /\ pc = "done"
  /\ invocations < MaxInvocations
  /\ invocations' = invocations + 1
  /\ pc' = "idle"
  /\ op' = "none"
  /\ request' = None
  /\ contents' = <<>>
  /\ body' = None
  /\ httpResponse' = None
  /\ outcome' = NoOutcome
  /\ fetchCalls' = 0
  /\ generateCalls' = 0
  /\ translateCalls' = 0
  /\ stream' = NoStream
  /\ consumed' = <<>>

\* the invocations of one generator object, one after the other
Next ==
  \/ GenerateContent(FlowRequests)
  \/ GenerateContentStream(FlowRequests)
  \/ ResponseOk(FlowOkResponses)
  \/ ResponseNotOk(FailResponses)
  \/ FetchRejects
  \/ StreamNext
  \/ CountTokens(TokenRequests)
  \/ EmbedContent(FlowRequests)
  \/ Return

Spec == Init /\ [][Next]_vars

\* generateContent over the message translator's requests
NextMessages ==
  \/ GenerateContent(MessageRequests)
  \/ ResponseOk(OneOkResponse)
  \/ ResponseNotOk(OneFailResponse)
  \/ Return

SpecMessages == Init /\ [][NextMessages]_vars

\* generateContent over the part renderer's requests
NextParts ==
  \/ GenerateContent(PartsRequests)
  \/ ResponseOk(OneOkResponse)
  \/ ResponseNotOk(OneFailResponse)
  \/ Return

SpecParts == Init /\ [][NextParts]_vars

\* generateContent over the backend's replies
NextResponse ==
  \/ GenerateContent(FlowRequests)
  \/ ResponseOk(OkResponses)
  \/ ResponseNotOk(FailResponses)
  \/ Return

SpecResponse == Init /\ [][NextResponse]_vars

----------------------------------------------------------------------------
(* The claims. *)

\* the string s holds the string sub
Includes(s, sub) ==
  \E i \in 0..(Len(s) - Len(sub)) : SubSeq(s, i + 1, i + Len(sub)) = sub

\* the Content list the current invocation translates: its local `contents`
InputContents == contents

\* the system instruction the current invocation was given
InputSystemInstruction == SystemInstructionOf(Get(request))

\* the messages of the payload the current invocation posted
Messages == Get(body).messages

\* a payload has been built for the current invocation
PayloadBuilt == request # None /\ body # None

(* C1, as stated: the payload holds one message per input content, plus one
   when a system instruction is given, whatever its value, the empty string
   included. *)
C1_CountWithAnyInstruction ==
  PayloadBuilt =>
    Len(Messages) =
      Len(InputContents) + (IF InputSystemInstruction # None THEN 1 ELSE 0)

(* C1, amended: the payload holds one message per input content, plus one
   when a system instruction other than the empty string is given; with no
   instruction, or with the empty string, it holds exactly one message per
   input content. *)
C1_MessageCount ==
  PayloadBuilt =>
    Len(Messages) =
      Len(InputContents)
        + (IF InputSystemInstruction # None
              /\ InputSystemInstruction # StringInstruction(<<>>)
             THEN 1 ELSE 0)

\* two turns and the empty string as system instruction: two messages
C1_Witness ==
  /\ PayloadBuilt
  /\ InputSystemInstruction = StringInstruction(<<>>)
  /\ Len(InputContents) = 2
  /\ Len(Messages) = 2

\* what C2 says of the payload when a system instruction counts as present
C2_SystemFirst ==
  /\ Len(Messages) >= 1
  /\ Messages[1].role = "system"
  /\ Get(InputSystemInstruction).type = "string" =>
       Messages[1].content = Get(Get(InputSystemInstruction).string)
  /\ Get(InputSystemInstruction).type = "object" =>
       Messages[1].content =
         partsToContent(Coalesce(Get(Get(InputSystemInstruction).content).parts, <<>>))

(* C2, as stated: whenever a system instruction is given, the first message
   has role "system" and the instruction's text as content, and no message
   but the first has role "system". *)
C2_SystemFirstWithAnyInstruction ==
  PayloadBuilt =>
    /\ InputSystemInstruction # None => C2_SystemFirst
    /\ \A i \in 2..Len(Messages) : Messages[i].role # "system"

(* C2, amended: whenever a system instruction other than the empty string is
   given, the first message has role "system", precedes every turn message,
   and has as content the string verbatim or the flattening of the parts of
   the Content-shaped instruction; no message but the first has role
   "system". *)
C2_SystemMessage ==
  PayloadBuilt =>
    /\ (InputSystemInstruction # None
          /\ InputSystemInstruction # StringInstruction(<<>>)) => C2_SystemFirst
    /\ \A i \in 2..Len(Messages) : Messages[i].role # "system"

\* a Content-shaped instruction ahead of two turns, one of them of role "system"
C2_Witness ==
  /\ PayloadBuilt
  /\ InputSystemInstruction # None
  /\ Get(InputSystemInstruction).type = "object"
  /\ Len(InputContents) = 2
  /\ InputContents[2].role = Some("system")
  /\ Len(Messages) = 3
  /\ Messages[1] =
       [role |-> "system",
        content |-> BeConcise \o <<"\n">>
                      \o <<"F", "u", "n", "c", "t", "i", "o", "n", " ", "c", "a", "l", "l", " ",
                           "l", "o", "o", "k", "u", "p", ":", " ",
                           "{", "\"", "q", "\"", ":", "\"", "x", "\"", "}">>]
  /\ Messages[3].role = "assistant"

\* the messages that follow the system message, if there is one
TurnMessages ==
  IF Messages # <<>> /\ Messages[1].role = "system" THEN Tail(Messages) ELSE Messages

\* a parts list none of whose parts renders to anything
C3_NothingRenderable(parts) ==
  parts = None \/ \A i \in 1..Len(Get(parts)) : Get(parts)[i] \in {EmptyPart, TextPart(<<>>)}

(* C3: the payload holds exactly one turn message per input Content, in
   input order; the i-th has role "user" when the i-th Content's role is
   exactly "user" and "assistant" otherwise (an absent role included), its
   content is the flattening of that Content's parts, and a Content with
   nothing to render still has its message, with empty content. *)
C3_TurnMessages ==
  PayloadBuilt =>
    /\ Len(TurnMessages) = Len(InputContents)
    /\ \A i \in 1..Len(InputContents) :
         /\ i <= Len(TurnMessages)
         /\ TurnMessages[i].role =
              (IF InputContents[i].role = Some("user") THEN "user" ELSE "assistant")
         /\ TurnMessages[i].content =
              partsToContent(Coalesce(InputContents[i].parts, <<>>))
         /\ C3_NothingRenderable(InputContents[i].parts) =>
              TurnMessages[i].content = <<>>

\* a turn of role "User" with nothing to render, then a user turn with parts
C3_Witness ==
  /\ PayloadBuilt
  /\ Len(InputContents) = 2
  /\ InputContents[1] = [role |-> Some("User"), parts |-> Some(<<EmptyPart>>)]
  /\ InputContents[2].role = Some("user")
  /\ InputContents[2].parts # None
  /\ Len(Get(InputContents[2].parts)) = 2
  /\ TurnMessages[1] = [role |-> "assistant", content |-> <<>>]
  /\ TurnMessages[2].role = "user"
  /\ TurnMessages[2].content # <<>>

\* the one branch that renders a part
C4_Line(part) ==
  CASE part.text # None -> Get(part.text)
    [] part.text = None /\ part.functionCall # None ->
         <<"F", "u", "n", "c", "t", "i", "o", "n", " ", "c", "a", "l", "l", " ">>
           \o Get(part.functionCall).name \o <<":", " ">>
           \o (IF Get(part.functionCall).args = None THEN <<"{", "}">>
               ELSE JSONStringify(Get(Get(part.functionCall).args)))
    [] part.text = None /\ part.functionCall = None /\ part.functionResponse # None ->
         <<"F", "u", "n", "c", "t", "i", "o", "n", " ",
           "r", "e", "s", "p", "o", "n", "s", "e", " ">>
           \o Get(part.functionResponse).name \o <<":", " ">>
           \o (IF Get(part.functionResponse).response = None THEN <<"{", "}">>
               ELSE JSONStringify(Get(Get(part.functionResponse).response)))
    [] OTHER -> <<>>

\* the lines of the parts that render to something, in order, one newline
\* between two of them
RECURSIVE C4_Flatten(_)
C4_Flatten(parts) ==
  IF parts = <<>> THEN <<>>
  ELSE LET line == C4_Line(Head(parts))
           rest == C4_Flatten(Tail(parts))
       IN IF line = <<>> THEN rest
          ELSE IF rest = <<>> THEN line
          ELSE line \o <<"\n">> \o rest

\* `Function call lookup: {"q":"x"}`
C4_LookupLine ==
  <<"F", "u", "n", "c", "t", "i", "o", "n", " ", "c", "a", "l", "l", " ",
    "l", "o", "o", "k", "u", "p", ":", " ", "{", "\"", "q", "\"", ":", "\"", "x", "\"", "}">>

\* the parts of the single turn of a request of the part renderer's specification
C4_Parts == Get(InputContents[1].parts)

(* C4: the content of a turn message is the rendering of the turn's parts:
   each part by its one branch (the text, the function-call line, the
   function-response line, or nothing), the empty renderings dropped, the
   others joined in part order by one newline; the call of lookup with
   arguments {"q":"x"} renders to `Function call lookup: {"q":"x"}`. *)
C4_PartRenderer ==
  PayloadBuilt =>
    /\ Messages[1].content = C4_Flatten(C4_Parts)
    /\ C4_Parts = <<LookupCall>> => Messages[1].content = C4_LookupLine

\* a text, an empty part and the lookup call: two lines
C4_Witness ==
  /\ PayloadBuilt
  /\ C4_Parts = <<TextPart(<<"h", "i">>), EmptyPart, LookupCall>>
  /\ Messages[1].content = <<"h", "i", "\n">> \o C4_LookupLine


\* the value response.json() gave the current invocation
ReplyData == Get(httpResponse).json

\* the backend answered the current generateContent call with a 2xx reply
ReplyTranslated ==
  /\ pc = "done"
  /\ op = "generateContent"
  /\ httpResponse # None
  /\ Get(httpResponse).status \in 200..299

\* the reply has a first choice
C5_HasChoice ==
  /\ ReplyData # None
  /\ Get(ReplyData).choices # None
  /\ Len(Get(Get(ReplyData).choices)) >= 1

C5_Choice == Get(Get(ReplyData).choices)[1]

\* the first choice carries a message content, a delta content
C5_HasMessageContent ==
  C5_HasChoice /\ C5_Choice.message # None /\ Get(C5_Choice.message).content # None

C5_HasDeltaContent ==
  C5_HasChoice /\ C5_Choice.delta # None /\ Get(C5_Choice.delta).content # None

\* the text of the single candidate of the response generateContent returned
C5_Text == Get(outcome.value).candidates[1].content.parts[1].text

(* C5: every 2xx reply, those with no choices included, is translated
   without failure into a response of exactly one candidate, whose text is
   the first choice's message content when there is one, else its delta
   content when there is one, else the error description of the raw
   choice. *)
C5_TextSelection ==
  ReplyTranslated =>
    /\ outcome.kind = "resolved"
    /\ Len(Get(outcome.value).candidates) = 1
    /\ Len(Get(outcome.value).candidates[1].content.parts) = 1
    /\ C5_HasMessageContent => C5_Text = Get(Get(C5_Choice.message).content)
    /\ (~C5_HasMessageContent /\ C5_HasDeltaContent) =>
         C5_Text = Get(Get(C5_Choice.delta).content)
    /\ (~C5_HasMessageContent /\ ~C5_HasDeltaContent) =>
         /\ C5_Text = getErrorMessage(IF C5_HasChoice THEN Some(C5_Choice) ELSE None)
         /\ C5_Text # <<>>

\* a message with an empty content and a delta: the message's content wins
C5_Witness ==
  /\ ReplyTranslated
  /\ C5_HasMessageContent
  /\ C5_HasDeltaContent
  /\ Get(Get(C5_Choice.message).content) = <<>>
  /\ C5_Text = <<>>

(* C8: the finish reason of the candidate is MAX_TOKENS when the first
   choice's finish_reason is "length", and STOP for every other value, for
   an absent finish_reason and for an absent first choice. *)
C8_FinishReason ==
  ReplyTranslated =>
    /\ outcome.kind = "resolved"
    /\ Get(outcome.value).candidates[1].finishReason =
         (IF C5_HasChoice /\ C5_Choice.finish_reason = Some("length")
            THEN "MAX_TOKENS" ELSE "STOP")

\* a first choice that stopped normally ahead of a second cut at the length
C8_Witness ==
  /\ ReplyTranslated
  /\ C5_HasChoice
  /\ Len(Get(Get(ReplyData).choices)) = 2
  /\ C5_Choice.finish_reason = Some("tool_calls")
  /\ Get(Get(ReplyData).choices)[2].finish_reason = Some("length")
  /\ Get(outcome.value).candidates[1].finishReason = "STOP"

(* C6: generateContentStream makes exactly one generateContent call, hence
   one fetch; a generator exists only once that call has completed with a
   reply; the generator's first next() gives the response generateContent
   returned, and every later next() reports the end. *)
C6_SingleElementStream ==
  /\ pc = "fetching" => stream.state = "none" /\ consumed = <<>>
  /\ stream.state # "none" =>
       /\ op = "generateContentStream"
       /\ pc = "done"
       /\ generateCalls = 1
       /\ fetchCalls = 1
       /\ httpResponse # None
       /\ outcome.kind = "resolved"
       /\ stream.resp = Some(fromOpenAiResponse(ReplyData))
  /\ \A i \in 1..Len(consumed) :
       IF i = 1
         THEN consumed[i] =
                [done |-> FALSE, value |-> Some(fromOpenAiResponse(ReplyData))]
         ELSE consumed[i] = [done |-> TRUE, value |-> None]
  /\ (op = "generateContentStream" /\ pc = "done" /\ outcome.kind = "rejected") =>
       stream.state = "none"

\* the generator consumed to its end and asked once more
C6_Witness ==
  /\ stream.state = "completed"
  /\ Len(consumed) = 3
  /\ consumed[1].done = FALSE
  /\ consumed[3].done = TRUE

\* `Ollama request failed (500): oops`
C7_Failed500Oops ==
  <<"O", "l", "l", "a", "m", "a", " ", "r", "e", "q", "u", "e", "s", "t", " ",
    "f", "a", "i", "l", "e", "d", " ", "(", "5", "0", "0", ")", ":", " ",
    "o", "o", "p", "s">>

\* the backend answered the current generateContent call with a reply that
\* is not 2xx
C7_ReplyNotOk ==
  /\ pc = "done"
  /\ op \in {"generateContent", "generateContentStream"}
  /\ httpResponse # None
  /\ Get(httpResponse).status \notin 200..299

(* C7: a reply that is not 2xx makes the call fail with an error whose
   message holds the status code and the raw body text; one fetch has been
   made, none is made again, and the reply is not translated. *)
C7_TransportFailure ==
  C7_ReplyNotOk =>
    /\ outcome.kind = "rejected"
    /\ Includes(outcome.message, NumberToString(Get(httpResponse).status))
    /\ Includes(outcome.message, Get(httpResponse).text)
    /\ (Get(httpResponse).status = 500
          /\ Get(httpResponse).text = <<"o", "o", "p", "s">>) =>
         outcome.message = C7_Failed500Oops
    /\ fetchCalls = 1
    /\ translateCalls = 0
    /\ stream.state = "none"

\* status 500 with body oops
C7_Witness ==
  /\ C7_ReplyNotOk
  /\ Get(httpResponse).status = 500
  /\ Get(httpResponse).text = <<"o", "o", "p", "s">>
  /\ outcome.kind = "rejected"
  /\ fetchCalls = 1

(* C9: embedContent fails whatever its input and whatever was invoked
   before, with an error that says the operation is not supported and names
   Ollama, and it makes no fetch. *)
C9_EmbeddingRejected ==
  op = "embedContent" =>
    /\ pc = "done"
    /\ outcome.kind = "rejected"
    /\ Includes(outcome.message, <<"n", "o", "t", " ", "s", "u", "p", "p", "o", "r", "t", "e", "d">>)
    /\ Includes(outcome.message, <<"O", "l", "l", "a", "m", "a">>)
    /\ fetchCalls = 0
    /\ generateCalls = 0
    /\ body = None
    /\ httpResponse = None

\* embedContent invoked with contents after an earlier invocation
C9_Witness ==
  /\ invocations >= 1
  /\ op = "embedContent"
  /\ Get(request).contents # None
  /\ outcome.kind = "rejected"

\* the length of the flattened text of all parts of all input contents
C10_Length == Len(partListUnionToString(FlatMapParts(InputContents)))

\* the estimate countTokens returned
C10_Tokens == Get(outcome.value).totalTokens

(* C10: countTokens returns max(1, ceil(L / 4)), L the length of the
   flattened text of all parts of all input contents: at least 1, the least
   number of 4-character tokens that cover L characters otherwise (1 for 0
   and for 4 characters, 2 for 5, 10 for 40), and it makes no fetch. *)
C10_TokenEstimate ==
  op = "countTokens" =>
    /\ outcome.kind = "resolved"
    /\ C10_Tokens >= 1
    /\ 4 * C10_Tokens >= C10_Length
    /\ C10_Tokens > 1 => 4 * (C10_Tokens - 1) < C10_Length
    /\ C10_Length = 0 => C10_Tokens = 1
    /\ C10_Length = 4 => C10_Tokens = 1
    /\ C10_Length = 5 => C10_Tokens = 2
    /\ C10_Length = 40 => C10_Tokens = 10
    /\ fetchCalls = 0
    /\ body = None

\* a text of 40 characters estimated at 10 tokens
C10_Witness ==
  /\ op = "countTokens"
  /\ C10_Length = 40
  /\ C10_Tokens = 10
  /\ fetchCalls = 0

====
